---- MODULE Spec2Model ----
(***************************************************************************)
(* A model of HoaLibrary-Light's Vector (energy and velocity vectors of a  *)
(* set of channels, Hoa_Vector.hpp) and Rotate (rotation of a planar sound *)
(* field in the harmonics domain, Hoa_Rotate.hpp).                         *)
(*                                                                         *)
(* Arrays passed by pointer are modelled as one memory (a sequence of      *)
(* cells) and two pointers into it, so that a call whose outputs array is  *)
(* its inputs array is the same operator applied with equal pointers.      *)
(* Every processing method is translated statement by statement, reading   *)
(* and writing that memory in the order of the source.                     *)
(***************************************************************************)
EXTENDS Integers, Sequences, FiniteSets, TLC

\* ------------------------------------------------------------- bounds
\* The largest number of channels a Vector is constructed with.
MaxChannels == 2
\* The largest order of decomposition a Rotate is constructed with.
MaxOrder == 2

\* The samples a caller passes in a channel.
SampleVals == {-1, 0, 1}
\* The layouts the planewaves provider can be put in (see getPlanewaveDir).
Layouts == {0, 1}

\* ---------------------------------------------- the sample type T (Vector)
\* In the Vector model a value of T is an exact fraction <<n, d>> in lowest
\* terms with d > 0: the channels hold small integers, whose sums and
\* products T computes exactly, and a quotient a / b of T is a function of
\* the exact fraction a / b.
Abs(x) == IF x < 0 THEN -x ELSE x

\* The sequence f[1], ..., f[n] of a function f on 1..n.
RECURSIVE SeqOf(_, _)
SeqOf(f, n) == IF n = 0 THEN << >> ELSE Append(SeqOf(f, n - 1), f[n])

RECURSIVE Gcd(_, _)
Gcd(a, b) == IF b = 0 THEN a ELSE Gcd(b, a % b)

Norm(n, d) ==
    LET s == IF d < 0 THEN -1 ELSE 1
        g == Gcd(Abs(n), Abs(d))
    IN  << (s * n) \div g, (s * d) \div g >>

Zero == << 0, 1 >>
Rat(i) == << i, 1 >>
TAdd(x, y) ==
    IF x[2] = 1 /\ y[2] = 1 THEN << x[1] + y[1], 1 >>
    ELSE Norm(x[1] * y[2] + y[1] * x[2], x[2] * y[2])
TMul(x, y) ==
    IF x[2] = 1 /\ y[2] = 1 THEN << x[1] * y[1], 1 >>
    ELSE Norm(x[1] * y[1], x[2] * y[2])
\* x / y, for y # 0 (every division of the source is guarded by y # 0)
TDiv(x, y) == Norm(x[1] * y[2], x[2] * y[1])
RatSeq(v) == SeqOf([i \in 1..Len(v) |-> Rat(v[i])], Len(v))

\* ------------------------------------------- collaborators of the Vector
\* Signal<T>::alloc(size): a zeroed buffer of `size` values.
Signal_alloc(size) == SeqOf([i \in 1..size |-> Zero], size)

RECURSIVE Signal_sum_from(_, _, _)
Signal_sum_from(a, i, acc) ==
    IF i > Len(a) THEN acc ELSE Signal_sum_from(a, i + 1, TAdd(acc, a[i]))
\* Signal<T>::sum(size, vector): the sum of the vector's values.
Signal_sum(size, a) == Signal_sum_from(SubSeq(a, 1, size), 1, Zero)

RECURSIVE Signal_dot_from(_, _, _, _)
Signal_dot_from(a, b, i, acc) ==
    IF i > Len(a) THEN acc
    ELSE Signal_dot_from(a, b, i + 1, TAdd(acc, TMul(a[i], b[i])))
\* Signal<T>::dot(size, in1, in2): the dot product of two vectors.
Signal_dot(size, a, b) == Signal_dot_from(SubSeq(a, 1, size), b, 1, Zero)

\* The directions a planewave can point in: abscissa, ordinate, height.
\* The first four lie in the horizontal plane (height 0), as every planewave
\* of a planar provider does.
PlanewaveDirs ==
    << << 1, 0, 0 >>, << 0, 1, 0 >>, << -1, 0, 0 >>, << 0, -1, 0 >>,
       << 0, 0, 1 >>, << 0, 0, -1 >> >>

\* The direction of planewave i (from 0) when the provider is in layout L:
\* the layout shifts every planewave to the next direction.
getPlanewaveDir(dim, L, i) ==
    PlanewaveDirs[((i + L) % (IF dim = 2 THEN 4 ELSE 6)) + 1]
getPlanewaveAbscissa(dim, L, i) == Rat(getPlanewaveDir(dim, L, i)[1])
getPlanewaveOrdinate(dim, L, i) == Rat(getPlanewaveDir(dim, L, i)[2])
getPlanewaveHeight(dim, L, i) == Rat(getPlanewaveDir(dim, L, i)[3])

\* ProcessorPlanewaves<D, T>(numberOfPlanewaves): the base constructor. A
\* number of planewaves of zero is a construction error.
ProcessorPlanewaves(numberOfPlanewaves) ==
    [ok |-> numberOfPlanewaves >= 1, nplanewaves |-> numberOfPlanewaves]

\* ------------------------------------------------------------ the Vector
\* The inputs array of n channels at pointer p of a memory.
View(mem, p, n) == SubSeq(mem, p, p + n - 1)

\* Vector_Hoa2d with a number of channels of zero raised to 1.
Vector_Hoa2d_Clamped(numberOfChannels) ==
    LET base == ProcessorPlanewaves(IF numberOfChannels = 0 THEN 1
                                    ELSE numberOfChannels)
    IN  [ok |-> base.ok,
         nplanewaves |-> base.nplanewaves,
         square |-> Signal_alloc(base.nplanewaves),
         abscissa |-> Signal_alloc(base.nplanewaves),
         ordinate |-> Signal_alloc(base.nplanewaves),
         height |-> << >>]

\* Vector<Hoa2d, T>::Vector(numberOfChannels)
Vector_Hoa2d(numberOfChannels) ==
    LET base == ProcessorPlanewaves(numberOfChannels)
    IN  [ok |-> base.ok,
         nplanewaves |-> base.nplanewaves,
         square |-> Signal_alloc(base.nplanewaves),
         abscissa |-> Signal_alloc(base.nplanewaves),
         ordinate |-> Signal_alloc(base.nplanewaves),
         height |-> << >>]

\* Vector<Hoa3d, T>::Vector(numberOfChannels)
Vector_Hoa3d(numberOfChannels) ==
    LET base == ProcessorPlanewaves(numberOfChannels)
    IN  [ok |-> base.ok,
         nplanewaves |-> base.nplanewaves,
         square |-> Signal_alloc(base.nplanewaves),
         abscissa |-> Signal_alloc(base.nplanewaves),
         ordinate |-> Signal_alloc(base.nplanewaves),
         height |-> Signal_alloc(base.nplanewaves)]

\* computeRendering_Hoa2d without the statement that stores the ordinate.
computeRendering_Hoa2d_NoOrdinate(n, L) ==
    [abscissa |-> SeqOf([i \in 1..n |-> getPlanewaveAbscissa(2, L, i - 1)], n),
     ordinate |-> Signal_alloc(n),
     height |-> << >>]

\* Vector<Hoa2d, T>::computeRendering(): the three caches after the loop.
computeRendering_Hoa2d(n, L) ==
    [abscissa |-> SeqOf([i \in 1..n |-> getPlanewaveAbscissa(2, L, i - 1)], n),
     ordinate |-> SeqOf([i \in 1..n |-> getPlanewaveOrdinate(2, L, i - 1)], n),
     height |-> << >>]

\* Vector<Hoa3d, T>::computeRendering()
computeRendering_Hoa3d(n, L) ==
    [abscissa |-> SeqOf([i \in 1..n |-> getPlanewaveAbscissa(3, L, i - 1)], n),
     ordinate |-> SeqOf([i \in 1..n |-> getPlanewaveOrdinate(3, L, i - 1)], n),
     height |-> SeqOf([i \in 1..n |-> getPlanewaveHeight(3, L, i - 1)], n)]

\* for(i = 1; i < n; i++) veclocitySum += inputs[i];
RECURSIVE veclocitySum_loop(_, _, _, _, _)
veclocitySum_loop(mem, inputs, i, n, acc) ==
    IF i < n
    THEN veclocitySum_loop(mem, inputs, i + 1, n, TAdd(acc, mem[inputs + i]))
    ELSE acc

\* processVelocity_Hoa2d with a sum that leaves inputs[0] out.
processVelocity_Hoa2d_SumFromOne(mem, inputs, outputs, n, cache) ==
    LET veclocitySum == veclocitySum_loop(mem, inputs, 1, n, Zero)
        velocityAbscissa == Signal_dot(n, View(mem, inputs, n), cache.abscissa)
        velocityOrdinate == Signal_dot(n, View(mem, inputs, n), cache.ordinate)
    IN  IF veclocitySum # Zero
        THEN [mem EXCEPT ![outputs] = TDiv(velocityAbscissa, veclocitySum),
                         ![outputs + 1] = TDiv(velocityOrdinate, veclocitySum)]
        ELSE [mem EXCEPT ![outputs] = Zero, ![outputs + 1] = Zero]

\* Vector<Hoa2d, T>::processVelocity(inputs, outputs): the memory after it.
processVelocity_Hoa2d(mem, inputs, outputs, n, cache) ==
    LET veclocitySum == veclocitySum_loop(mem, inputs, 1, n, mem[inputs])
        velocityAbscissa == Signal_dot(n, View(mem, inputs, n), cache.abscissa)
        velocityOrdinate == Signal_dot(n, View(mem, inputs, n), cache.ordinate)
    IN  IF veclocitySum # Zero
        THEN [mem EXCEPT ![outputs] = TDiv(velocityAbscissa, veclocitySum),
                         ![outputs + 1] = TDiv(velocityOrdinate, veclocitySum)]
        ELSE [mem EXCEPT ![outputs] = Zero, ![outputs + 1] = Zero]

\* Vector<Hoa3d, T>::processVelocity(inputs, outputs)
processVelocity_Hoa3d(mem, inputs, outputs, n, cache) ==
    LET veclocitySum == veclocitySum_loop(mem, inputs, 1, n, mem[inputs])
        velocityAbscissa == Signal_dot(n, View(mem, inputs, n), cache.abscissa)
        velocityOrdinate == Signal_dot(n, View(mem, inputs, n), cache.ordinate)
        velocityHeight == Signal_dot(n, View(mem, inputs, n), cache.height)
    IN  IF veclocitySum # Zero
        THEN [mem EXCEPT ![outputs] = TDiv(velocityAbscissa, veclocitySum),
                         ![outputs + 1] = TDiv(velocityOrdinate, veclocitySum),
                         ![outputs + 2] = TDiv(velocityHeight, veclocitySum)]
        ELSE [mem EXCEPT ![outputs] = Zero, ![outputs + 1] = Zero,
                         ![outputs + 2] = Zero]

\* channels_square_loop with += in place of =: each square is added to what
\* the buffer held.
RECURSIVE channels_square_loop_Accumulate(_, _, _, _, _)
channels_square_loop_Accumulate(mem, inputs, i, n, square) ==
    IF i < n
    THEN channels_square_loop_Accumulate(mem, inputs, i + 1, n,
             [square EXCEPT ![i + 1] =
                  TAdd(square[i + 1], TMul(mem[inputs + i], mem[inputs + i]))])
    ELSE square

\* (*m_channels_square) = (*inputs) * (*inputs);
\* for(i = 1; i < n; i++) m_channels_square[i] = inputs[i] * inputs[i];
RECURSIVE channels_square_loop(_, _, _, _, _)
channels_square_loop(mem, inputs, i, n, square) ==
    IF i < n
    THEN channels_square_loop(mem, inputs, i + 1, n,
             [square EXCEPT ![i + 1] = TMul(mem[inputs + i], mem[inputs + i])])
    ELSE square

\* processEnergy_Hoa2d without the statement that squares inputs[0]: the
\* first square is the one the buffer held.
processEnergy_Hoa2d_StaleFirst(mem, inputs, outputs, n, cache, m_square) ==
    LET square == channels_square_loop(mem, inputs, 1, n, m_square)
        energySum == Signal_sum(n, square)
        energyAbscissa == Signal_dot(n, square, cache.abscissa)
        energyOrdinate == Signal_dot(n, square, cache.ordinate)
    IN  [square |-> square,
         mem |-> IF energySum # Zero
                 THEN [mem EXCEPT ![outputs] = TDiv(energyAbscissa, energySum),
                                  ![outputs + 1] = TDiv(energyOrdinate, energySum)]
                 ELSE [mem EXCEPT ![outputs] = Zero, ![outputs + 1] = Zero]]

\* Vector<Hoa2d, T>::processEnergy(inputs, outputs): the memory and the
\* squares buffer after it.
processEnergy_Hoa2d(mem, inputs, outputs, n, cache, m_square) ==
    LET square == channels_square_loop(mem, inputs, 1, n,
                      [m_square EXCEPT ![1] = TMul(mem[inputs], mem[inputs])])
        energySum == Signal_sum(n, square)
        energyAbscissa == Signal_dot(n, square, cache.abscissa)
        energyOrdinate == Signal_dot(n, square, cache.ordinate)
    IN  [square |-> square,
         mem |-> IF energySum # Zero
                 THEN [mem EXCEPT ![outputs] = TDiv(energyAbscissa, energySum),
                                  ![outputs + 1] = TDiv(energyOrdinate, energySum)]
                 ELSE [mem EXCEPT ![outputs] = Zero, ![outputs + 1] = Zero]]

\* Vector<Hoa3d, T>::processEnergy(inputs, outputs)
processEnergy_Hoa3d(mem, inputs, outputs, n, cache, m_square) ==
    LET square == channels_square_loop(mem, inputs, 1, n,
                      [m_square EXCEPT ![1] = TMul(mem[inputs], mem[inputs])])
        energySum == Signal_sum(n, square)
        energyAbscissa == Signal_dot(n, square, cache.abscissa)
        energyOrdinate == Signal_dot(n, square, cache.ordinate)
        energyHeight == Signal_dot(n, square, cache.height)
    IN  [square |-> square,
         mem |-> IF energySum # Zero
                 THEN [mem EXCEPT ![outputs] = TDiv(energyAbscissa, energySum),
                                  ![outputs + 1] = TDiv(energyOrdinate, energySum),
                                  ![outputs + 2] = TDiv(energyHeight, energySum)]
                 ELSE [mem EXCEPT ![outputs] = Zero, ![outputs + 1] = Zero,
                                  ![outputs + 2] = Zero]]

\* process_Hoa2d with the energy vector written one cell too early.
process_Hoa2d_Overlap(mem, inputs, outputs, n, cache, m_square) ==
    processEnergy_Hoa2d(processVelocity_Hoa2d(mem, inputs, outputs, n, cache),
                        inputs, outputs + 1, n, cache, m_square)

\* Vector<Hoa2d, T>::process(inputs, outputs)
process_Hoa2d(mem, inputs, outputs, n, cache, m_square) ==
    processEnergy_Hoa2d(processVelocity_Hoa2d(mem, inputs, outputs, n, cache),
                        inputs, outputs + 2, n, cache, m_square)

\* Vector<Hoa3d, T>::process(inputs, outputs)
process_Hoa3d(mem, inputs, outputs, n, cache, m_square) ==
    processEnergy_Hoa3d(processVelocity_Hoa3d(mem, inputs, outputs, n, cache),
                        inputs, outputs + 3, n, cache, m_square)

\* ---------------------------------------------- the sample type T (Rotate)
\* In the Rotate model a value of T is a floating-point number whose
\* significand holds MantBits bits, written as an integer: angles count
\* quarter turns (so that the cosine and the sine of every angle are exact)
\* and harmonics hold small integers. Every operation of T rounds its exact
\* result to the nearest value of T, ties to the even significand.
MantBits == 24
\* HOA_2PI, in quarter turns.
TwoPi == 4

RECURSIVE Ulp(_, _)
\* The spacing of the values of T around a magnitude a >= 2^MantBits.
Ulp(a, q) == IF a < (2 ^ MantBits) * q THEN q ELSE Ulp(a, 2 * q)

FRound(x) ==
    LET a == Abs(x)
    IN  IF a < 2 ^ MantBits THEN x
        ELSE LET q == Ulp(a, 2)
                 lo == (a \div q) * q
                 r == a - lo
                 up == IF 2 * r > q THEN TRUE
                       ELSE IF 2 * r < q THEN FALSE
                       ELSE (lo \div q) % 2 = 1
                 m == IF up THEN lo + q ELSE lo
             IN  IF x < 0 THEN -m ELSE m

FAdd(x, y) == FRound(x + y)
FSub(x, y) == FRound(x - y)
FMul(x, y) == FRound(x * y)

\* std::cos and std::sin of an angle in quarter turns.
std_cos(x) == << 1, 0, -1, 0 >>[(x % 4) + 1]
std_sin(x) == << 0, 1, 0, -1 >>[(x % 4) + 1]

\* ------------------------------------------------------------ the Rotate
\* ProcessorHarmonics<Hoa2d, T>(order): the order of decomposition and the
\* number of harmonics it implies.
ProcessorHarmonics(order) == [order |-> order, nharmonics |-> 2 * order + 1]

\* Rotate<Hoa2d, T>::setYaw(yaw): the three members after it.
setYaw(yaw) == [m_yaw |-> yaw, m_cosx |-> std_cos(yaw), m_sinx |-> std_sin(yaw)]

\* The first loop of wrap_twopi. A call that never returns is the record
\* with returns = FALSE: the body of each loop changes nothing but value,
\* so an iteration that leaves value as it was is repeated for ever.
RECURSIVE wrap_twopi_neg(_)
wrap_twopi_neg(value) ==
    IF value < 0
    THEN LET next == FAdd(value, TwoPi)
         IN  IF next = value THEN [returns |-> FALSE, value |-> value]
             ELSE wrap_twopi_neg(next)
    ELSE [returns |-> TRUE, value |-> value]

\* The second loop of wrap_twopi.
RECURSIVE wrap_twopi_pos(_)
wrap_twopi_pos(value) ==
    IF value >= TwoPi
    THEN LET next == FSub(value, TwoPi)
         IN  IF next = value THEN [returns |-> FALSE, value |-> value]
             ELSE wrap_twopi_pos(next)
    ELSE [returns |-> TRUE, value |-> value]

\* Rotate<Hoa2d, T>::wrap_twopi(value)
wrap_twopi(value) ==
    LET neg == wrap_twopi_neg(value)
    IN  IF neg.returns THEN wrap_twopi_pos(neg.value) ELSE neg

\* Rotate<Hoa2d, T>::getYaw()
getYaw(m_yaw) == wrap_twopi(m_yaw)

\* rotate_pair with the sign of the second output slipped.
rotate_pair_SignSlip(mem, inputs, outputs, cos_x, sin_x) ==
    LET sig == mem[inputs]
        mem1 == [mem EXCEPT ![outputs] =
                     FAdd(FMul(sin_x, mem[inputs + 1]), FMul(cos_x, sig))]
    IN  [mem1 EXCEPT ![outputs + 1] =
             FAdd(FMul(cos_x, mem1[inputs + 1]), FMul(sin_x, sig))]

\* rotate_pair without the temporary sig: the second statement reads the
\* first harmonic of the pair again.
rotate_pair_Reread(mem, inputs, outputs, cos_x, sin_x) ==
    LET mem1 == [mem EXCEPT ![outputs] =
                     FAdd(FMul(sin_x, mem[inputs + 1]), FMul(cos_x, mem[inputs]))]
    IN  [mem1 EXCEPT ![outputs + 1] =
             FSub(FMul(cos_x, mem1[inputs + 1]), FMul(sin_x, mem1[inputs]))]

\* sig = (*inputs++);
\* (*outputs++) = sin_x * (*inputs) + cos_x * sig;
\* (*outputs++) = cos_x * (*inputs++) - sin_x * sig;
\* with inputs and outputs the pointers before these three statements.
rotate_pair(mem, inputs, outputs, cos_x, sin_x) ==
    LET sig == mem[inputs]
        mem1 == [mem EXCEPT ![outputs] =
                     FAdd(FMul(sin_x, mem[inputs + 1]), FMul(cos_x, sig))]
    IN  [mem1 EXCEPT ![outputs + 1] =
             FSub(FMul(cos_x, mem1[inputs + 1]), FMul(sin_x, sig))]

\* rotate_loop without the temporary tcos_x: the sine is computed from the
\* cosine already updated.
RECURSIVE rotate_loop_NoTemp(_, _, _, _, _, _, _, _, _)
rotate_loop_NoTemp(mem, inputs, outputs, i, order, cos_x, sin_x, m_cosx, m_sinx) ==
    IF i <= order
    THEN LET cos_x1 == FSub(FMul(cos_x, m_cosx), FMul(sin_x, m_sinx))
             sin_x1 == FAdd(FMul(cos_x1, m_sinx), FMul(sin_x, m_cosx))
         IN  rotate_loop_NoTemp(rotate_pair(mem, inputs, outputs, cos_x1, sin_x1),
                                inputs + 2, outputs + 2, i + 1, order,
                                cos_x1, sin_x1, m_cosx, m_sinx)
    ELSE mem

\* The loop of process from degree i on; cos_x and sin_x are those of the
\* degree before (tcos_x equals cos_x wherever the loop reads it).
RECURSIVE rotate_loop(_, _, _, _, _, _, _, _, _)
rotate_loop(mem, inputs, outputs, i, order, cos_x, sin_x, m_cosx, m_sinx) ==
    IF i <= order
    THEN LET tcos_x == cos_x
             cos_x1 == FSub(FMul(tcos_x, m_cosx), FMul(sin_x, m_sinx))
             sin_x1 == FAdd(FMul(tcos_x, m_sinx), FMul(sin_x, m_cosx))
         IN  rotate_loop(rotate_pair(mem, inputs, outputs, cos_x1, sin_x1),
                         inputs + 2, outputs + 2, i + 1, order,
                         cos_x1, sin_x1, m_cosx, m_sinx)
    ELSE mem

\* Rotate<Hoa2d, T>::process(inputs, outputs): the memory after it.
Rotate_process(mem, inputs, outputs, order, m_cosx, m_sinx) ==
    LET mem0 == [mem EXCEPT ![outputs] = mem[inputs]]
        mem1 == rotate_pair(mem0, inputs + 1, outputs + 1, m_cosx, m_sinx)
    IN  rotate_loop(mem1, inputs + 3, outputs + 3, 2, order,
                    m_cosx, m_sinx, m_cosx, m_sinx)

\* ----------------------------------------------------------------- state
VARIABLES
    vstate,             \* "new", "ready" (a Vector exists) or "error"
    vdim,               \* 2 (Hoa2d) or 3 (Hoa3d)
    requested,          \* the numberOfChannels given to the constructor
    nplanewaves,        \* getNumberOfPlanewaves()
    layout,             \* the layout the planewaves provider is in
    rendered,           \* the layout at the last computeRendering, -1: never
    m_channels_square,  \* the squares buffer
    m_channels,         \* m_channels_abscissa, _ordinate and _height
    vmem,               \* the caller's arrays of the last process* call
    vcall,              \* the last process* call
    rstate,             \* "new", "ready" (a Rotate exists) or "hung"
    order,              \* getDecompositionOrder()
    nharmonics,         \* getNumberOfHarmonics()
    m_yaw, m_cosx, m_sinx,
    yawSet,             \* setYaw has been called
    yawRet,             \* the getYaw call just made, if it is the last call
    rmem,               \* the caller's arrays of the process call below
    rcall               \* the process call being prepared or just made

vvars == << vstate, vdim, requested, nplanewaves, layout, rendered,
            m_channels_square, m_channels, vmem, vcall >>
rvars == << rstate, order, nharmonics, m_yaw, m_cosx, m_sinx, yawSet, yawRet, rmem, rcall >>
vars == << vvars, rvars >>

\* What a cell of an outputs array holds before the call writes it.
Stale == << 7, 1 >>
StaleR == Stale[1]

NoCache == [abscissa |-> << >>, ordinate |-> << >>, height |-> << >>]
NoVCall ==
    [op |-> "none", aliased |-> FALSE, inputs |-> 1, outputs |-> 1,
     v |-> << >>, ren |-> -1, lay |-> 0, cache |-> NoCache,
     scratch |-> << >>]
NoYawRet == [called |-> FALSE, returns |-> TRUE, value |-> 0]
NoRCall ==
    [op |-> "none", aliased |-> FALSE, inputs |-> 1, outputs |-> 1,
     v |-> << >>, fed |-> FALSE, v0 |-> << >>, yaw0 |-> 0]

VIdle ==
    /\ vstate = "new" /\ vdim = 2 /\ requested = 0 /\ nplanewaves = 0
    /\ layout = 0 /\ rendered = -1
    /\ m_channels_square = << >> /\ m_channels = NoCache
    /\ vmem = << >> /\ vcall = NoVCall
RIdle ==
    /\ rstate = "new" /\ order = 0 /\ nharmonics = 0
    /\ m_yaw = 0 /\ m_cosx = 0 /\ m_sinx = 0 /\ yawSet = FALSE
    /\ yawRet = NoYawRet /\ rmem = << >> /\ rcall = NoRCall

Init == VIdle /\ RIdle

\* ------------------------------------------------- the Vector's operations
\* new Vector<Hoa2d, T>(n) or new Vector<Hoa3d, T>(n)
Construct(dim, n) ==
    /\ vstate = "new"
    /\ rstate = "new"
    /\ LET obj == IF dim = 2 THEN Vector_Hoa2d(n) ELSE Vector_Hoa3d(n)
       IN  /\ vstate' = IF obj.ok THEN "ready" ELSE "error"
           /\ nplanewaves' = obj.nplanewaves
           /\ m_channels_square' = obj.square
           /\ m_channels' = [abscissa |-> obj.abscissa,
                             ordinate |-> obj.ordinate, height |-> obj.height]
    /\ vdim' = dim
    /\ requested' = n
    /\ UNCHANGED << layout, rendered, vmem, vcall, rvars >>

\* The host changes the azimuth, the elevation or the offset of the channels.
SetGeometry(L) ==
    /\ vstate = "ready"
    /\ L # layout
    /\ layout' = L
    /\ UNCHANGED << vstate, vdim, requested, nplanewaves, rendered,
                    m_channels_square, m_channels, vmem, vcall, rvars >>

ComputeRendering ==
    /\ vstate = "ready"
    /\ m_channels' = IF vdim = 2 THEN computeRendering_Hoa2d(nplanewaves, layout)
                     ELSE computeRendering_Hoa3d(nplanewaves, layout)
    /\ rendered' = layout
    /\ UNCHANGED << vstate, vdim, requested, nplanewaves, layout,
                    m_channels_square, vmem, vcall, rvars >>

\* The caller's memory before a call: the inputs array holding v and an
\* outputs array of outLen cells, which is the inputs array when the call
\* is in place.
CallMem(v, outLen, aliased, stale) ==
    LET h == SeqOf(v, Len(v))
    IN  IF aliased
        THEN IF Len(h) >= outLen THEN h
             ELSE h \o SeqOf([i \in 1..(outLen - Len(h)) |-> stale], outLen - Len(h))
        ELSE h \o SeqOf([i \in 1..outLen |-> stale], outLen)

\* The caller fills the inputs array with the samples v of the channels and
\* chooses the outputs array: the inputs array itself (in place) or another.
WriteInputs(v, aliased) ==
    /\ vstate = "ready"
    /\ vmem' = CallMem(RatSeq(v), 2 * vdim, aliased, Stale)
    /\ vcall' = [op |-> "ready", aliased |-> aliased, inputs |-> 1,
                 outputs |-> IF aliased THEN 1 ELSE Len(v) + 1,
                 v |-> v, ren |-> rendered, lay |-> layout,
                 cache |-> m_channels, scratch |-> m_channels_square]
    /\ UNCHANGED << vstate, vdim, requested, nplanewaves, layout, rendered,
                    m_channels_square, m_channels, rvars >>

\* The call record of an operation on the arrays the caller prepared, with
\* the direction cache and the squares buffer as the call finds them.
VCallOf(op) ==
    [vcall EXCEPT !.op = op, !.ren = rendered, !.lay = layout,
                  !.cache = m_channels, !.scratch = m_channels_square]

ProcessVelocity ==
    /\ vstate = "ready"
    /\ vcall.op = "ready"
    /\ vcall' = VCallOf("velocity")
    /\ vmem' = IF vdim = 2
               THEN processVelocity_Hoa2d(vmem, vcall.inputs, vcall.outputs,
                                          nplanewaves, m_channels)
               ELSE processVelocity_Hoa3d(vmem, vcall.inputs, vcall.outputs,
                                          nplanewaves, m_channels)
    /\ UNCHANGED << vstate, vdim, requested, nplanewaves, layout, rendered,
                    m_channels_square, m_channels, rvars >>

ProcessEnergy ==
    /\ vstate = "ready"
    /\ vcall.op = "ready"
    /\ LET r == IF vdim = 2
                THEN processEnergy_Hoa2d(vmem, vcall.inputs, vcall.outputs,
                         nplanewaves, m_channels, m_channels_square)
                ELSE processEnergy_Hoa3d(vmem, vcall.inputs, vcall.outputs,
                         nplanewaves, m_channels, m_channels_square)
       IN  /\ vmem' = r.mem
           /\ m_channels_square' = r.square
    /\ vcall' = VCallOf("energy")
    /\ UNCHANGED << vstate, vdim, requested, nplanewaves, layout, rendered,
                    m_channels, rvars >>

Process ==
    /\ vstate = "ready"
    /\ vcall.op = "ready"
    /\ LET r == IF vdim = 2
                THEN process_Hoa2d(vmem, vcall.inputs, vcall.outputs,
                         nplanewaves, m_channels, m_channels_square)
                ELSE process_Hoa3d(vmem, vcall.inputs, vcall.outputs,
                         nplanewaves, m_channels, m_channels_square)
       IN  /\ vmem' = r.mem
           /\ m_channels_square' = r.square
    /\ vcall' = VCallOf("process")
    /\ UNCHANGED << vstate, vdim, requested, nplanewaves, layout, rendered,
                    m_channels, rvars >>

Inputs(n) == [1..n -> SampleVals]

VNext ==
    \/ \E dim \in {2, 3}, n \in 0..MaxChannels : Construct(dim, n)
    \/ \E L \in Layouts : SetGeometry(L)
    \/ ComputeRendering
    \/ \E v \in Inputs(nplanewaves), a \in BOOLEAN : WriteInputs(v, a)
    \/ ProcessVelocity
    \/ ProcessEnergy
    \/ Process

\* ------------------------------------------------- the Rotate's operations
\* The yaw values a caller passes to setYaw, in quarter turns: -2 is -pi and
\* 10 is 5 pi; BigYaw is a value of T so large that its neighbours in T lie
\* more than HOA_2PI away.
BigYaw == 3 * (2 ^ (MantBits + 2))
YawVals == {-2, -1, 0, 1, 2, 3, 10, BigYaw, -BigYaw}

\* What the members m_yaw, m_cosx and m_sinx, which the constructor leaves
\* uninitialized, can hold.
Indeterminate == {0, 2}

\* new Rotate<Hoa2d, T>(o)
RotateConstruct(o) ==
    /\ rstate = "new"
    /\ vstate = "new"
    /\ LET base == ProcessorHarmonics(o)
       IN  /\ order' = base.order
           /\ nharmonics' = base.nharmonics
    /\ m_yaw' \in Indeterminate
    /\ m_cosx' \in Indeterminate
    /\ m_sinx' \in Indeterminate
    /\ rstate' = "ready"
    /\ UNCHANGED << yawSet, yawRet, rmem, rcall, vvars >>

\* The state shows the result of a call until the next call of the object:
\* setYaw and getYaw leave arrays the caller has prepared for the next
\* process call as they are.
Forget(call) == IF call.op = "process" THEN NoRCall ELSE call
ForgetMem(call, mem) == IF call.op = "process" THEN << >> ELSE mem

SetYaw(yaw) ==
    /\ rstate = "ready"
    /\ LET m == setYaw(yaw)
       IN  /\ m_yaw' = m.m_yaw
           /\ m_cosx' = m.m_cosx
           /\ m_sinx' = m.m_sinx
    /\ yawSet' = TRUE
    /\ yawRet' = NoYawRet
    /\ rcall' = Forget(rcall)
    /\ rmem' = ForgetMem(rcall, rmem)
    /\ UNCHANGED << rstate, order, nharmonics, vvars >>

\* A getYaw call whose loop never ends leaves the caller hung.
GetYaw ==
    /\ rstate = "ready"
    /\ LET r == getYaw(m_yaw)
       IN  /\ yawRet' = [called |-> TRUE, returns |-> r.returns,
                         value |-> r.value]
           /\ rstate' = IF r.returns THEN "ready" ELSE "hung"
    /\ rcall' = Forget(rcall)
    /\ rmem' = ForgetMem(rcall, rmem)
    /\ UNCHANGED << order, nharmonics, m_yaw, m_cosx, m_sinx, yawSet, vvars >>

\* The caller fills the inputs array with the harmonics h and chooses the
\* outputs array: the inputs array itself (in place) or another. The arrays
\* hold the number of harmonics, which is at least the three values process
\* reads and writes whatever the order: the order must be at least 1.
WriteHarmonics(h, aliased) ==
    /\ rstate = "ready"
    /\ order >= 1
    /\ rmem' = CallMem(h, nharmonics, aliased, StaleR)
    /\ rcall' = [NoRCall EXCEPT !.op = "ready", !.aliased = aliased,
                     !.outputs = IF aliased THEN 1 ELSE nharmonics + 1,
                     !.v = h]
    /\ yawRet' = NoYawRet
    /\ UNCHANGED << rstate, order, nharmonics, m_yaw, m_cosx, m_sinx, yawSet,
                    vvars >>

\* The caller passes the outputs of the process call just made, after a
\* setYaw, as the inputs of the next one.
FeedBack(aliased) ==
    /\ rstate = "ready"
    /\ rcall.op = "process"
    /\ ~rcall.fed
    /\ yawSet
    /\ LET h == View(rmem, rcall.outputs, nharmonics)
       IN  /\ rmem' = CallMem(h, nharmonics, aliased, StaleR)
           /\ rcall' = [NoRCall EXCEPT !.op = "ready", !.aliased = aliased,
                            !.outputs = IF aliased THEN 1 ELSE nharmonics + 1,
                            !.v = h, !.fed = TRUE, !.v0 = rcall.v,
                            !.yaw0 = m_yaw]
    /\ yawRet' = NoYawRet
    /\ UNCHANGED << rstate, order, nharmonics, m_yaw, m_cosx, m_sinx, yawSet,
                    vvars >>

RotateProcess ==
    /\ rstate = "ready"
    /\ rcall.op = "ready"
    /\ rmem' = Rotate_process(rmem, rcall.inputs, rcall.outputs, order,
                              m_cosx, m_sinx)
    /\ rcall' = [rcall EXCEPT !.op = "process"]
    /\ yawRet' = NoYawRet
    /\ UNCHANGED << rstate, order, nharmonics, m_yaw, m_cosx, m_sinx, yawSet,
                    vvars >>

\* The harmonics a caller passes: each harmonic alone, the ramp 1, 2, ...
\* and the alternation 1, 0, 1, ...
Harmonics(n) ==
    { SeqOf([i \in 1..n |-> IF i = k THEN 1 ELSE 0], n) : k \in 1..n }
        \cup { SeqOf([i \in 1..n |-> i], n), SeqOf([i \in 1..n |-> i % 2], n) }

RNext ==
    \/ \E o \in 0..MaxOrder : RotateConstruct(o)
    \/ \E yaw \in YawVals : SetYaw(yaw)
    \/ GetYaw
    \/ \E h \in Harmonics(nharmonics), a \in BOOLEAN : WriteHarmonics(h, a)
    \/ \E a \in BOOLEAN : FeedBack(a)
    \/ RotateProcess

\* The two classes share no state: a run constructs one object, a Vector or
\* a Rotate, and follows it.
Next == VNext \/ RNext

Spec == Init /\ [][Next]_vars

\* ------------------------------------------------------------ properties
\* The sum of f over the indices S, in exact integer arithmetic.
RECURSIVE SumOver(_, _)
SumOver(S, f) ==
    IF S = {} THEN 0
    ELSE LET i == CHOOSE j \in S : TRUE IN f[i] + SumOver(S \ {i}, f)

\* Cell k (from 1) of the outputs array of the Vector's last call.
VOut(k) == vmem[vcall.outputs + k - 1]
\* The outputs of the Vector's last call: 4 or 6 cells of process, 2 or 3 of
\* processVelocity and processEnergy.
VOutputs ==
    View(vmem, vcall.outputs, IF vcall.op = "process" THEN 2 * vdim ELSE vdim)
\* The direction cache of axis a: 1 abscissa, 2 ordinate, 3 height.
Axis(cache, a) ==
    IF a = 1 THEN cache.abscissa
    ELSE IF a = 2 THEN cache.ordinate ELSE cache.height
\* (sum of w[i] * cache_a[i]) / (sum of w[i]), or 0 when the sum is 0.
Weighted(w, cache, a) ==
    LET idx == 1..Len(w)
        s == SumOver(idx, w)
        num == SumOver(idx, [i \in idx |-> w[i] * Axis(cache, a)[i][1]])
    IN  IF s # 0 THEN Norm(num, s) ELSE Zero
Squares(v) == SeqOf([i \in 1..Len(v) |-> v[i] * v[i]], Len(v))
VDone == vcall.op \in {"velocity", "energy", "process"}

\* C1: after processVelocity (planar or spatial, in place or not), each axis
\* a of the outputs holds (sum of v[i] * cache_a[i]) / (sum of v[i]) when
\* the sum of v is not zero, and 0 on every axis when it is zero.
C1_VelocityFormula ==
    vcall.op = "velocity" =>
        \A a \in 1..vdim : VOut(a) = Weighted(vcall.v, vcall.cache, a)

\* A velocity call whose inputs are not all zero but sum to zero, with a
\* numerator that is not zero: the division is skipped and 0 is written.
C1_Witness ==
    /\ vcall.op = "velocity"
    /\ SumOver(1..Len(vcall.v), vcall.v) = 0
    /\ \E i \in 1..Len(vcall.v) : vcall.v[i] # 0
    /\ Signal_dot(nplanewaves, RatSeq(vcall.v), vcall.cache.abscissa) # Zero
    /\ \A a \in 1..vdim : VOut(a) = Zero

\* C2: after processEnergy (planar or spatial, in place or not), each axis a
\* of the outputs holds (sum of v[i]^2 * cache_a[i]) / (sum of v[i]^2) when
\* the energy sum is not zero, and 0 on every axis when v is all zero.
C2_EnergyFormula ==
    vcall.op = "energy" =>
        /\ \A a \in 1..vdim :
               VOut(a) = Weighted(Squares(vcall.v), vcall.cache, a)
        /\ (\A i \in 1..Len(vcall.v) : vcall.v[i] = 0)
               => \A a \in 1..vdim : VOut(a) = Zero

\* An energy call with a quotient that is neither 0 nor a cache value.
C2_Witness ==
    /\ vcall.op = "energy"
    /\ vdim = 3
    /\ \E a \in 1..vdim : VOut(a)[2] > 1

\* The outputs of processVelocity and of processEnergy, each called alone on
\* inputs v with an outputs array of its own.
AloneVelocity(v, cache) ==
    LET n == Len(v)
        mem == CallMem(RatSeq(v), vdim, FALSE, Stale)
    IN  View(IF vdim = 2 THEN processVelocity_Hoa2d(mem, 1, n + 1, n, cache)
             ELSE processVelocity_Hoa3d(mem, 1, n + 1, n, cache),
             n + 1, vdim)
AloneEnergy(v, cache) ==
    LET n == Len(v)
        mem == CallMem(RatSeq(v), vdim, FALSE, Stale)
    IN  View(IF vdim = 2
             THEN processEnergy_Hoa2d(mem, 1, n + 1, n, cache, Signal_alloc(n)).mem
             ELSE processEnergy_Hoa3d(mem, 1, n + 1, n, cache, Signal_alloc(n)).mem,
             n + 1, vdim)

\* The caller's arrays before the Vector's last call.
VBefore == CallMem(RatSeq(vcall.v), 2 * vdim, vcall.aliased, Stale)
\* The 4 or 6 cells from outputs after processVelocity(inputs, outputs) and
\* then processEnergy(inputs, outputs + 2 or 3), made as two calls by the
\* caller on the arrays of the last call.
TwoCalls(cache) ==
    LET n == Len(vcall.v)
        m1 == IF vdim = 2
              THEN processVelocity_Hoa2d(VBefore, vcall.inputs, vcall.outputs, n, cache)
              ELSE processVelocity_Hoa3d(VBefore, vcall.inputs, vcall.outputs, n, cache)
        m2 == IF vdim = 2
              THEN processEnergy_Hoa2d(m1, vcall.inputs, vcall.outputs + 2, n,
                                       cache, Signal_alloc(n)).mem
              ELSE processEnergy_Hoa3d(m1, vcall.inputs, vcall.outputs + 3, n,
                                       cache, Signal_alloc(n)).mem
    IN  View(m2, vcall.outputs, 2 * vdim)

C8_InPlaceAsSeparate ==
    (VDone /\ vcall.aliased) =>
        /\ vcall.op = "velocity" =>
               VOutputs = AloneVelocity(vcall.v, vcall.cache)
        /\ vcall.op = "energy" =>
               VOutputs = AloneEnergy(vcall.v, vcall.cache)
        /\ vcall.op = "process" =>
               VOutputs
                   = AloneVelocity(vcall.v, vcall.cache)
                         \o AloneEnergy(vcall.v, vcall.cache)

\* The directions of the provider in layout L (-1: none, all zero), as the
\* cache holds them.
DirectionsAt(L) ==
    LET idx == 1..nplanewaves
        n == nplanewaves
    IN  IF L = -1
        THEN [abscissa |-> SeqOf([i \in idx |-> Zero], n),
              ordinate |-> SeqOf([i \in idx |-> Zero], n),
              height |-> IF vdim = 2 THEN << >> ELSE SeqOf([i \in idx |-> Zero], n)]
        ELSE [abscissa |->
                  SeqOf([i \in idx |-> getPlanewaveAbscissa(vdim, L, i - 1)], n),
              ordinate |->
                  SeqOf([i \in idx |-> getPlanewaveOrdinate(vdim, L, i - 1)], n),
              height |->
                  IF vdim = 2 THEN << >>
                  ELSE SeqOf([i \in idx |-> getPlanewaveHeight(vdim, L, i - 1)], n)]

\* The outputs the Vector's last call gives, on the same arrays, with the
\* direction cache `cache`.
OutputsWith(cache) ==
    LET n == Len(vcall.v)
    IN  IF vcall.op = "velocity"
        THEN View(IF vdim = 2
                  THEN processVelocity_Hoa2d(VBefore, vcall.inputs, vcall.outputs,
                                             n, cache)
                  ELSE processVelocity_Hoa3d(VBefore, vcall.inputs, vcall.outputs,
                                             n, cache),
                  vcall.outputs, vdim)
        ELSE IF vcall.op = "energy"
        THEN View(IF vdim = 2
                  THEN processEnergy_Hoa2d(VBefore, vcall.inputs, vcall.outputs,
                                           n, cache, Signal_alloc(n)).mem
                  ELSE processEnergy_Hoa3d(VBefore, vcall.inputs, vcall.outputs,
                                           n, cache, Signal_alloc(n)).mem,
                  vcall.outputs, vdim)
        ELSE TwoCalls(cache)

\* C9: the direction cache holds the provider's directions as they were at
\* the last computeRendering, or zeros if there was none; the outputs of a
\* process* call are those the directions at the last computeRendering
\* before the call give, whatever the provider's directions at the call;
\* and a call before the first computeRendering writes zeros only.
C9_CacheIsLastRendering ==
    /\ vstate = "ready" => m_channels = DirectionsAt(rendered)
    /\ VDone => VOutputs = OutputsWith(DirectionsAt(vcall.ren))
    /\ (VDone /\ vcall.ren = -1) =>
           \A k \in 1..Len(VOutputs) : VOutputs[k] = Zero

\* A call made after the geometry changed and before computeRendering was
\* called again: its outputs are not those of the provider's directions.
C9_Witness ==
    /\ VDone
    /\ vcall.ren # -1
    /\ vcall.lay # vcall.ren
    /\ VOutputs # OutputsWith(DirectionsAt(vcall.lay))
    /\ VOutputs = OutputsWith(DirectionsAt(vcall.ren))

ROutputs == View(rmem, rcall.outputs, nharmonics)
RDone == rcall.op = "process"
\* cos(l * yaw) and sin(l * yaw), evaluated directly at the angle l * yaw.
CosOf(l, yaw) == std_cos(l * (yaw % TwoPi))
SinOf(l, yaw) == std_sin(l * (yaw % TwoPi))
Ramp5 == << 1, 2, 3, 4, 5 >>

\* C4: after setYaw(yaw), process writes outputs[0] = inputs[0] and, for
\* each degree l from 1 to the order, with the pair at indices 2l-1 and 2l
\* (from 0; cells 2l and 2l+1 from 1),
\*   outputs[2l-1] = sin(l yaw) * inputs[2l] + cos(l yaw) * inputs[2l-1]
\*   outputs[2l]   = cos(l yaw) * inputs[2l] - sin(l yaw) * inputs[2l-1];
\* with order 1, inputs [1, 0, 1] and yaw = pi/2 the outputs are [1, 1, 0].
C4_RotationFormula ==
    (RDone /\ yawSet) =>
        /\ ROutputs[1] = rcall.v[1]
        /\ \A l \in 1..order :
               /\ ROutputs[2 * l] =
                      SinOf(l, m_yaw) * rcall.v[2 * l + 1]
                          + CosOf(l, m_yaw) * rcall.v[2 * l]
               /\ ROutputs[2 * l + 1] =
                      CosOf(l, m_yaw) * rcall.v[2 * l + 1]
                          - SinOf(l, m_yaw) * rcall.v[2 * l]
        /\ (order = 1 /\ rcall.v = << 1, 0, 1 >> /\ m_yaw = 1)
               => ROutputs = << 1, 1, 0 >>

\* A process call of order 2 after setYaw(pi/2): the second pair is rotated
\* by the coefficients the recurrence gives for degree 2.
C4_Witness ==
    /\ RDone /\ yawSet /\ ~rcall.aliased
    /\ order = 2 /\ m_yaw = 1
    /\ rcall.v = Ramp5
    /\ ROutputs = << 1, 3, -2, -4, -5 >>

\* C5: setYaw(theta) and process, then setYaw(-theta) or setYaw(2 pi -
\* theta) and process on the outputs of the first call, gives the harmonics
\* the first call was given.
C5_RoundTrip ==
    (RDone /\ rcall.fed
       /\ (m_yaw = 0 - rcall.yaw0 \/ m_yaw = FSub(TwoPi, rcall.yaw0)))
        => ROutputs = rcall.v0

\* A round trip of order 2 by pi/2 and then 3 pi/2, whose first call changed
\* the harmonics.
C5_Witness ==
    /\ RDone /\ rcall.fed
    /\ order = 2
    /\ rcall.yaw0 = 1 /\ m_yaw = 3
    /\ rcall.v0 = Ramp5
    /\ rcall.v = << 1, 3, -2, -4, -5 >>
    /\ ROutputs = Ramp5

\* C6, as claimed: after setYaw, getYaw returns, and returns a value in
\* [0, 2 pi) that differs from the yaw set by a whole multiple of 2 pi.
C6_GetYawWrapped ==
    (yawRet.called /\ yawSet) =>
        /\ yawRet.returns
        /\ 0 <= yawRet.value /\ yawRet.value < TwoPi
        /\ (yawRet.value - m_yaw) % TwoPi = 0

\* C7: a process call whose outputs array is its inputs array writes the
\* values the same call writes to an outputs array of its own.
C7_InPlaceRotation ==
    (RDone /\ rcall.aliased) =>
        ROutputs =
            View(Rotate_process(CallMem(rcall.v, nharmonics, FALSE, StaleR),
                                1, nharmonics + 1, order, m_cosx, m_sinx),
                 nharmonics + 1, nharmonics)

\* An in-place process call of order 2 that changed every pair.
C7_Witness ==
    /\ RDone /\ rcall.aliased /\ yawSet
    /\ order = 2 /\ m_yaw = 1
    /\ rcall.v = Ramp5
    /\ rmem = << 1, 3, -2, -4, -5 >>

\* The cached cosine and sine are those of the stored yaw.
CacheOfYaw == m_cosx = std_cos(m_yaw) /\ m_sinx = std_sin(m_yaw)

\* C11, as claimed: in every state of a Rotate that exists, from its
\* construction on and also before the first setYaw, the cached cosine and
\* sine are the cosine and sine of the stored yaw.
C11_CacheConsistent == rstate # "new" => CacheOfYaw

\* C11, the part that holds: once setYaw has been called the cached cosine
\* and sine are those of the stored yaw, whatever getYaw and process calls
\* follow.
C11_ConsistentOnceSet == (rstate # "new" /\ yawSet) => CacheOfYaw

\* The squares buffer holds the squares of the samples v.
ScratchIsSquaresOf(v) == m_channels_square = RatSeq(Squares(v))

\* C12: the outputs of a process* call are those the same call gives on a
\* Vector whose squares buffer was never used, whatever calls came before;
\* after processEnergy, and after process with an outputs array of its own,
\* every cell of the squares buffer is the square of the call's sample; and
\* no process* call changes the direction cache.
C12_HistoryIndependent ==
    /\ [](VDone => VOutputs = OutputsWith(vcall.cache))
    /\ []((vcall.op = "energy" \/ (vcall.op = "process" /\ ~vcall.aliased))
             => ScratchIsSquaresOf(vcall.v))
    /\ [][(vcall.op = "ready" /\ vcall'.op # "ready")
             => m_channels' = m_channels]_vars

\* A processEnergy call that found in the squares buffer the squares of
\* other samples, left by an earlier call, and whose outputs are not zero.
C12_Witness ==
    /\ vcall.op = "energy"
    /\ vcall.scratch # Signal_alloc(nplanewaves)
    /\ vcall.scratch # RatSeq(Squares(vcall.v))
    /\ ScratchIsSquaresOf(vcall.v)
    /\ VOutputs = OutputsWith(vcall.cache)
    /\ \E k \in 1..Len(VOutputs) : VOutputs[k] # Zero

====
